---- MODULE Spec2Model ----
(***************************************************************************)
(* Transactional mutation primitives of viur.toolkit.db: normalize_key,    *)
(* write_in_transaction, increase_counter and set_status, run through an   *)
(* optimistic, retrying transaction runner against a key-value store.      *)
(***************************************************************************)
EXTENDS Integers, Sequences, FiniteSets, TLC

(***************************************************************************)
(* Python values.  Every value is a pair <<type, payload>> so that values  *)
(* of different Python types compare unequal.                              *)
(***************************************************************************)
PyInt(n) == <<"int", n>>
PyStr(s) == <<"str", s>>
PyNone == <<"NoneType", "">>
IsNum(v) == v[1] = "int"

\* Field names are Python strings, modelled as sequences of characters so
\* that bone[0] and bone[1:] are computed as the code computes them.
fN == <<"n">>
fS == <<"s">>
fA == <<"a">>
fR == <<"r">>
fM == <<"m">>
Plus(f) == <<"+">> \o f
Minus(f) == <<"-">> \o f

\* A db.Entity is a dict: a function from the field names it holds to values.
EmptyEntity == [f \in {} |-> PyNone]
Has(e, f) == f \in DOMAIN e
SetItem(e, f, v) == [x \in (DOMAIN e) \cup {f} |-> IF x = f THEN v ELSE e[x]]

\* A mapping argument (dict) is the sequence of its items in dict order.
Item(f, v) == <<f, v>>

(***************************************************************************)
(* Keys.  A structured db.Key is a (kind, id) pair; a legacy urlsafe token *)
(* is a string, modelled as the sequence of its characters.                *)
(***************************************************************************)
MaxKind == 2
MaxId == 2

Kinds == 1..MaxKind
Ids == 1..MaxId
KeyOf(kind, id) == [type |-> "Key", kind |-> kind, id |-> id, chars |-> <<>>]
StrOf(chars) == [type |-> "str", kind |-> 0, id |-> 0, chars |-> chars]
IntOf(n) == [type |-> "int", kind |-> 0, id |-> n, chars |-> <<>>]
StructuredKeys == {KeyOf(k, i) : k \in Kinds, i \in Ids}

\* The legacy token of a key: the tag character 0, then kind and id.
to_legacy_urlsafe(key) == StrOf(<<0, key.kind, key.id>>)

WellFormed(chars) ==
    /\ Len(chars) = 3
    /\ chars[1] = 0
    /\ chars[2] \in Kinds
    /\ chars[3] \in Ids

\* db.Key.from_legacy_urlsafe: decodes a token, fails on a malformed string.
from_legacy_urlsafe(s) ==
    IF WellFormed(s.chars)
    THEN [err |-> "", key |-> KeyOf(s.chars[2], s.chars[3])]
    ELSE [err |-> "KeyDecodeError", key |-> s]

\* normalize_key that hands a str back undecoded.
normalize_key_identity(key) ==
    IF key.type \in {"str", "Key"}
    THEN [err |-> "", key |-> key]
    ELSE [err |-> "TypeError", key |-> key]

\* normalize_key, lines 18-23.
normalize_key(key) ==
    IF key.type = "str" THEN from_legacy_urlsafe(key)
    ELSE IF key.type = "Key" THEN [err |-> "", key |-> key]
    ELSE [err |-> "TypeError", key |-> key]

(***************************************************************************)
(* The store.  An address holds [exists, e]; db.Get reports a missing      *)
(* entity by the store's one contract: it raises db.NotFoundError (as      *)
(* lines 30 and 47 expect) or returns None (as line 99 expects).           *)
(***************************************************************************)
Absent == [exists |-> FALSE, e |-> EmptyEntity]
Present(e) == [exists |-> TRUE, e |-> e]
GetContracts == {"raises", "None"}

Get(st, contract, key) ==
    IF st[key].exists THEN [sig |-> "Entity", e |-> st[key].e]
    ELSE IF contract = "raises" THEN [sig |-> "NotFoundError", e |-> EmptyEntity]
    ELSE [sig |-> "None", e |-> EmptyEntity]

\* The outcome of one run of a transaction closure: the exception raised
\* ("" for none), the object the closure worked on, the call that wrote it
\* ("" for none, "db.Put", or skel.toDB with its update_relations flag), the
\* fields set through the relation setter, and the returned number
\* (increase_counter).
Outcome(err, obj, put, rel, val) ==
    [err |-> err, obj |-> obj, put |-> put, rel |-> rel, val |-> val]
Raise(err, obj) == Outcome(err, obj, "", {}, PyNone)
toDB(update_relations) ==
    IF update_relations THEN "toDB(update_relations=True)"
    ELSE "toDB(update_relations=False)"

RECURSIVE AssignAll(_, _)
\* for k, v in mapping.items(): entity[k] = v   (lines 35-36, 109-110)
AssignAll(e, m) ==
    IF m = <<>> THEN e
    ELSE AssignAll(SetItem(e, Head(m)[1], Head(m)[2]), Tail(m))

(***************************************************************************)
(* write_in_transaction.txn, lines 27-38.                                  *)
(***************************************************************************)
\* write_txn that stores only the given fields (the fetched entity dropped).
write_txn_no_merge(st, contract, create_missing_entity, key, values) ==
    LET g == Get(st, contract, key) IN
    IF g.sig = "NotFoundError" /\ ~create_missing_entity
    THEN Raise("NotFoundError", EmptyEntity)
    ELSE IF g.sig = "None" THEN Raise("TypeError", EmptyEntity)
    ELSE LET entity == AssignAll(EmptyEntity, values)
         IN Outcome("", entity, "db.Put", {}, PyNone)

write_txn(st, contract, create_missing_entity, key, values) ==
    LET g == Get(st, contract, key) IN
    IF g.sig = "NotFoundError" /\ ~create_missing_entity
    THEN Raise("NotFoundError", EmptyEntity)
    ELSE IF g.sig = "None"
    \* entity is None: None[k] = v, or db.Put(None), raises
    THEN Raise("TypeError", EmptyEntity)
    ELSE LET entity0 == IF g.sig = "NotFoundError" THEN EmptyEntity ELSE g.e
             entity == AssignAll(entity0, values)
         IN Outcome("", entity, "db.Put", {}, PyNone)

(***************************************************************************)
(* increase_counter.txn, lines 44-57.                                      *)
(***************************************************************************)
\* increase_txn returning the value after the increment.
increase_txn_returns_new(st, contract, key, name, value, start) ==
    LET g == Get(st, contract, key) IN
    IF g.sig = "None" THEN Raise("TypeError", EmptyEntity)
    ELSE LET entity0 == IF g.sig = "NotFoundError" THEN EmptyEntity ELSE g.e
             entity1 == IF ~Has(entity0, name)
                        THEN SetItem(entity0, name, PyInt(start)) ELSE entity0
             old_value == entity1[name]
         IN IF ~IsNum(old_value) THEN Raise("TypeError", entity1)
            ELSE Outcome("", SetItem(entity1, name, PyInt(old_value[2] + value)),
                         "db.Put", {}, PyInt(old_value[2] + value))

\* increase_txn without the "if _name not in entity" of line 52.
increase_txn_resets(st, contract, key, name, value, start) ==
    LET g == Get(st, contract, key) IN
    IF g.sig = "None" THEN Raise("TypeError", EmptyEntity)
    ELSE LET entity0 == IF g.sig = "NotFoundError" THEN EmptyEntity ELSE g.e
             entity1 == SetItem(entity0, name, PyInt(start))
             old_value == entity1[name]
         IN Outcome("", SetItem(entity1, name, PyInt(old_value[2] + value)),
                    "db.Put", {}, old_value)

increase_txn(st, contract, key, name, value, start) ==
    LET g == Get(st, contract, key) IN
    \* entity is None: "_name not in entity" raises
    IF g.sig = "None" THEN Raise("TypeError", EmptyEntity)
    ELSE LET entity0 == IF g.sig = "NotFoundError" THEN EmptyEntity ELSE g.e
             entity1 == IF ~Has(entity0, name)
                        THEN SetItem(entity0, name, PyInt(start)) ELSE entity0
             old_value == entity1[name]
         IN IF ~IsNum(old_value) THEN Raise("TypeError", entity1)
            ELSE Outcome("", SetItem(entity1, name, PyInt(old_value[2] + value)),
                         "db.Put", {}, old_value)

(***************************************************************************)
(* set_status arguments.  values, precondition and create are duck-typed:  *)
(* a dict (its items in order), a callable, a bool, None or anything else. *)
(***************************************************************************)
ArgBool(b) == [t |-> "bool", b |-> b, m |-> <<>>, p |-> ""]
ArgDict(m) == [t |-> "dict", b |-> FALSE, m |-> m, p |-> ""]
ArgCallable(p) == [t |-> "callable", b |-> FALSE, m |-> <<>>, p |-> p]
ArgNone == [t |-> "NoneType", b |-> FALSE, m |-> <<>>, p |-> ""]
ArgInt == [t |-> "int", b |-> FALSE, m |-> <<>>, p |-> ""]

\* Python truth of the create argument ("if not create", "and create").
Truthy(arg) ==
    CASE arg.t = "bool" -> arg.b
      [] arg.t = "dict" -> arg.m # <<>>
      [] arg.t = "NoneType" -> FALSE
      [] OTHER -> TRUE

\* The fields the skeleton declares as bones.RelationalBone.
RelationalBones == {fR}

\* The state of a set_status transaction between its steps.
Rec(err, obj, exists, rel) == [err |-> err, obj |-> obj, exists |-> exists, rel |-> rel]

\* A caller-supplied callable invoked on the record: create(obj),
\* precondition(obj), values(obj) (lines 112, 120, 142).
ApplyProc(p, r) ==
    CASE p = "set_a" -> [r EXCEPT !.obj = SetItem(r.obj, fA, PyInt(1))]
      [] p = "require_open" ->
            IF Has(r.obj, fS) /\ r.obj[fS] = PyStr("open") THEN r
            ELSE [r EXCEPT !.err = "ProcedureError"]
      [] OTHER -> [r EXCEPT !.err = "ProcedureError"]

\* ss_load without the "if not create: raise" of lines 89-90 and 100-101.
ss_load_always_creates(st, contract, key, create, useSkel, skelVals) ==
    IF useSkel
    THEN IF ~st[key].exists THEN Rec("", skelVals, FALSE, {})
         ELSE Rec("", st[key].e, TRUE, {})
    ELSE LET g == Get(st, contract, key) IN
         IF g.sig = "NotFoundError"
         THEN Rec("NotFoundError", EmptyEntity, TRUE, {})
         ELSE IF g.sig = "None" THEN Rec("", EmptyEntity, FALSE, {})
         ELSE Rec("", g.e, TRUE, {})

\* Load, lines 84-104: the record and whether it exists.  skel.fromDB(key)
\* fills the skeleton from the stored entity and returns whether it exists.
ss_load(st, contract, key, create, useSkel, skelVals) ==
    IF useSkel
    THEN IF ~st[key].exists
         THEN IF ~Truthy(create)
              THEN Rec("ValueError: not found", skelVals, TRUE, {})
              ELSE Rec("", skelVals, FALSE, {})
         ELSE Rec("", st[key].e, TRUE, {})
    ELSE LET g == Get(st, contract, key) IN
         IF g.sig = "NotFoundError"
         THEN Rec("NotFoundError", EmptyEntity, TRUE, {})
         ELSE IF g.sig = "None"
         THEN IF ~Truthy(create)
              THEN Rec("ValueError: not found", EmptyEntity, TRUE, {})
              ELSE Rec("", EmptyEntity, FALSE, {})
         ELSE Rec("", g.e, TRUE, {})

\* Handle create, lines 106-112.
ss_create(r, create) ==
    IF r.err # "" THEN r
    ELSE IF ~r.exists /\ Truthy(create)
    THEN IF create.t = "dict" THEN [r EXCEPT !.obj = AssignAll(r.obj, create.m)]
         ELSE IF create.t = "callable" THEN ApplyProc(create.p, r)
         ELSE r
    ELSE r

RECURSIVE CheckAll(_, _, _)
\* for bone, value in precondition.items(): assert obj[bone] == value
\* (lines 116-117).  A dict raises KeyError on a missing field; an unset
\* bone of a skeleton reads as None.
CheckAll(obj, useSkel, m) ==
    IF m = <<>> THEN ""
    ELSE LET bone == Head(m)[1]
             value == Head(m)[2]
         IN IF ~Has(obj, bone) /\ ~useSkel THEN "KeyError"
            ELSE IF (IF Has(obj, bone) THEN obj[bone] ELSE PyNone) # value
            THEN "AssertionError"
            ELSE CheckAll(obj, useSkel, Tail(m))

\* ss_precondition without the dict branch of lines 115-117.
ss_precondition_skips_dict(r, precondition, useSkel) ==
    IF r.err # "" THEN r
    ELSE IF precondition.t = "callable" THEN ApplyProc(precondition.p, r)
    ELSE r

\* Handle precondition, lines 114-120.
ss_precondition(r, precondition, useSkel) ==
    IF r.err # "" THEN r
    ELSE IF precondition.t = "dict"
    THEN [r EXCEPT !.err = CheckAll(r.obj, useSkel, precondition.m)]
    ELSE IF precondition.t = "callable" THEN ApplyProc(precondition.p, r)
    ELSE r

\* AugAssign with "-=" of line 130 written as "+=".
AugAssign_always_adds(r, useSkel, name, value, sign) ==
    IF ~Has(r.obj, name) /\ ~useSkel THEN [r EXCEPT !.err = "KeyError"]
    ELSE LET old == IF Has(r.obj, name) THEN r.obj[name] ELSE PyNone IN
         IF ~IsNum(old) \/ ~IsNum(value) THEN [r EXCEPT !.err = "TypeError"]
         ELSE [r EXCEPT !.obj = SetItem(r.obj, name, PyInt(old[2] + value[2]))]

\* obj[name] += sign * value (lines 127, 130).
AugAssign(r, useSkel, name, value, sign) ==
    IF ~Has(r.obj, name) /\ ~useSkel THEN [r EXCEPT !.err = "KeyError"]
    ELSE LET old == IF Has(r.obj, name) THEN r.obj[name] ELSE PyNone IN
         IF ~IsNum(old) \/ ~IsNum(value) THEN [r EXCEPT !.err = "TypeError"]
         ELSE [r EXCEPT !.obj = SetItem(r.obj, name, PyInt(old[2] + sign * value[2]))]

\* Variant of ApplyOne without the relational-bone branch of lines 132-137.
ApplyOne_assigns_relations(r, useSkel, bone, value, relOk) ==
    IF bone[1] = "+" THEN AugAssign(r, useSkel, Tail(bone), value, 1)
    ELSE IF bone[1] = "-" THEN AugAssign(r, useSkel, Tail(bone), value, -1)
    ELSE [r EXCEPT !.obj = SetItem(r.obj, bone, value)]

\* One item of the values dict, lines 125-139.
ApplyOne(r, useSkel, bone, value, relOk) ==
    IF bone[1] = "+" THEN AugAssign(r, useSkel, Tail(bone), value, 1)
    ELSE IF bone[1] = "-" THEN AugAssign(r, useSkel, Tail(bone), value, -1)
    ELSE IF useSkel /\ bone \in RelationalBones
    THEN IF relOk
         THEN [r EXCEPT !.obj = SetItem(r.obj, bone, value), !.rel = r.rel \cup {bone}]
         ELSE [r EXCEPT !.err = "AssertionError: setBoneValue"]
    ELSE [r EXCEPT !.obj = SetItem(r.obj, bone, value)]

RECURSIVE ApplyValues(_, _, _, _)
\* for bone, value in values.items(): ... (line 124)
ApplyValues(r, useSkel, m, relOk) ==
    IF r.err # "" \/ m = <<>> THEN r
    ELSE ApplyValues(ApplyOne(r, useSkel, Head(m)[1], Head(m)[2], relOk),
                     useSkel, Tail(m), relOk)

\* Set values, lines 122-145.
ss_values(r, values, useSkel, relOk) ==
    IF r.err # "" THEN r
    ELSE IF values.t = "dict" THEN ApplyValues(r, useSkel, values.m, relOk)
    ELSE IF values.t = "callable" THEN ApplyProc(values.p, r)
    ELSE [r EXCEPT !.err = "ValueError: values"]

\* Variant of ss_persist that writes the record whether or not an earlier
\* stage raised.
ss_persist_writes_on_error(r, useSkel, update_relations, saveOk) ==
    IF useSkel
    THEN IF saveOk THEN Outcome(r.err, r.obj, toDB(update_relations), r.rel, PyNone)
         ELSE Outcome("AssertionError: toDB", r.obj, "", r.rel, PyNone)
    ELSE Outcome(r.err, r.obj, "db.Put", r.rel, PyNone)

\* Persist and return, lines 147-152.
ss_persist(r, useSkel, update_relations, saveOk) ==
    IF r.err # "" THEN Outcome(r.err, r.obj, "", r.rel, PyNone)
    ELSE IF useSkel
    THEN IF saveOk THEN Outcome("", r.obj, toDB(update_relations), r.rel, PyNone)
         ELSE Outcome("AssertionError: toDB", r.obj, "", r.rel, PyNone)
    ELSE Outcome("", r.obj, "db.Put", r.rel, PyNone)

\* set_status.transaction, lines 83-152.  relOk and saveOk are what
\* skel.setBoneValue and skel.toDB return.
transaction(st, contract, key, a, skelVals, relOk, saveOk) ==
    ss_persist(
        ss_values(
            ss_precondition(
                ss_create(ss_load(st, contract, key, a.create, a.skel, skelVals), a.create),
                a.precondition, a.skel),
            a.values, a.skel, relOk),
        a.skel, a.update_relations, saveOk)

(***************************************************************************)
(* State.                                                                  *)
(***************************************************************************)
VARIABLES
    store,        \* address -> [exists, e]: the entities of the backing store
    getContract,  \* how db.Get reports a missing entity, fixed for the run
    call,         \* per caller: the public operation in progress
    stale,        \* callers whose buffered attempt conflicts with a commit
    log,          \* the finished calls, in the order they finished
    interfered,   \* commits of other clients so far
    nk            \* normalize_key applied once and twice to an input

vars == <<store, getContract, call, stale, log, interfered, nk>>

NumProcs == 3
Procs == 1..NumProcs

K1 == KeyOf(1, 1)
K2 == KeyOf(1, 2)
Tok1 == to_legacy_urlsafe(K1)
MalStr == StrOf(<<1>>)
IntKey == IntOf(42)
\* Every value the operations hand to the store as a key.
Addrs == {K1, K2, Tok1, IntKey}

NoArgs ==
    [create_missing_entity |-> FALSE, fields |-> <<>>,
     name |-> <<>>, value |-> 0, start |-> 0,
     values |-> ArgNone, precondition |-> ArgNone, create |-> ArgNone,
     skel |-> FALSE, update_relations |-> FALSE]

Idle ==
    [pc |-> "idle", op |-> "none", key |-> K1, nkey |-> K1, started |-> FALSE,
     a |-> NoArgs, snap |-> Absent, err |-> "", obj |-> EmptyEntity, put |-> "",
     val |-> PyNone, rel |-> {}, skelVals |-> EmptyEntity,
     attempts |-> 0, ncalls |-> 0]

NkIdle == [stage |-> 0, input |-> K1, once |-> [err |-> "", key |-> K1],
           twice |-> [err |-> "", key |-> K1]]

LogEntry(p, c) == [p |-> p, op |-> c.op, err |-> c.err, val |-> c.val]

\* A call begins: the state every public operation starts from.
Begin(p, op, key, a) ==
    [Idle EXCEPT !.op = op, !.key = key, !.a = a, !.ncalls = call[p].ncalls + 1]

\* The call ends with an exception before any transaction was started.
FailEarly(p, c, err) ==
    /\ call' = [call EXCEPT ![p] = [c EXCEPT !.pc = "done", !.err = err]]
    /\ log' = Append(log, LogEntry(p, [c EXCEPT !.err = err]))

\* db.RunInTransaction(fn, ...) is entered with the closure's key.
Enter(p, c, key) ==
    /\ call' = [call EXCEPT ![p] = [c EXCEPT !.pc = "txn", !.nkey = key, !.started = TRUE]]
    /\ log' = log

CanCall(p) == call[p].pc \in {"idle", "done"}

\* write_in_transaction, line 40: normalize_key(key), then the runner.
Call_write_in_transaction(p, key, create_missing_entity, values) ==
    /\ CanCall(p)
    /\ LET c == Begin(p, "write_in_transaction", key,
                      [NoArgs EXCEPT !.create_missing_entity = create_missing_entity,
                                     !.fields = values])
           k == normalize_key(key)
       IN IF k.err # "" THEN FailEarly(p, c, k.err) ELSE Enter(p, c, k.key)
    /\ UNCHANGED <<store, getContract, stale, interfered, nk>>

\* increase_counter, line 59: normalize_key(key), then the runner.
Call_increase_counter(p, key, name, value, start) ==
    /\ CanCall(p)
    /\ LET c == Begin(p, "increase_counter", key,
                      [NoArgs EXCEPT !.name = name, !.value = value, !.start = start])
           k == normalize_key(key)
       IN IF k.err # "" THEN FailEarly(p, c, k.err) ELSE Enter(p, c, k.key)
    /\ UNCHANGED <<store, getContract, stale, interfered, nk>>

\* set_status, line 154: the runner is entered with the key as given.
Call_set_status(p, key, values, precondition, create, skel, update_relations) ==
    /\ CanCall(p)
    /\ LET c == Begin(p, "set_status", key,
                      [NoArgs EXCEPT !.values = values, !.precondition = precondition,
                                     !.create = create, !.skel = skel,
                                     !.update_relations = update_relations])
       IN Enter(p, c, key)
    /\ UNCHANGED <<store, getContract, stale, interfered, nk>>

\* One attempt of the runner: the closure runs against the store as it is
\* now; an exception ends the call, otherwise its write waits for commit.
Attempt(p, o) ==
    LET c == [call[p] EXCEPT !.attempts = call[p].attempts + 1,
                             !.snap = store[call[p].nkey],
                             !.err = o.err, !.obj = o.obj, !.put = o.put,
                             !.val = o.val,
                             !.rel = o.rel,
                             !.skelVals = IF call[p].a.skel THEN o.obj ELSE call[p].skelVals]
    IN /\ IF o.err # ""
          THEN /\ call' = [call EXCEPT ![p] = [c EXCEPT !.pc = "done"]]
               /\ log' = Append(log, LogEntry(p, c))
          ELSE /\ call' = [call EXCEPT ![p] = [c EXCEPT !.pc = "commit"]]
               /\ log' = log
       /\ stale' = stale \ {p}
       /\ UNCHANGED <<store, getContract, interfered, nk>>

Txn_write_in_transaction(p) ==
    /\ call[p].pc = "txn"
    /\ call[p].op = "write_in_transaction"
    /\ Attempt(p, write_txn(store, getContract, call[p].a.create_missing_entity,
                            call[p].nkey, call[p].a.fields))

Txn_increase_counter(p) ==
    /\ call[p].pc = "txn"
    /\ call[p].op = "increase_counter"
    /\ Attempt(p, increase_txn(store, getContract, call[p].nkey, call[p].a.name,
                               call[p].a.value, call[p].a.start))

Txn_set_status(p, relOk, saveOk) ==
    /\ call[p].pc = "txn"
    /\ call[p].op = "set_status"
    /\ Attempt(p, transaction(store, getContract, call[p].nkey, call[p].a,
                              call[p].skelVals, relOk, saveOk))

\* The callers whose buffered attempt read the entity at key.
Readers(key) == {q \in Procs : call[q].pc = "commit" /\ call[q].nkey = key}

\* Variant of Commit in which the runner only ever answers a conflict and
\* never accepts an attempt.
Commit_only_retries(p) ==
    /\ call[p].pc = "commit"
    /\ p \in stale
    /\ stale' = stale \ {p}
    /\ call' = [call EXCEPT ![p].pc = "txn"]
    /\ UNCHANGED <<store, log, getContract, interfered, nk>>

\* The runner commits the attempt's write, or finds a conflicting commit
\* and runs the closure again from scratch.
Commit(p) ==
    /\ call[p].pc = "commit"
    /\ \/ /\ p \notin stale
          /\ store' = IF call[p].put = "" THEN store
                       ELSE [store EXCEPT ![call[p].nkey] = Present(call[p].obj)]
          /\ stale' = stale \cup (Readers(call[p].nkey) \ {p})
          /\ call' = [call EXCEPT ![p].pc = "done"]
          /\ log' = Append(log, LogEntry(p, call[p]))
       \/ /\ p \in stale
          /\ stale' = stale \ {p}
          /\ call' = [call EXCEPT ![p].pc = "txn"]
          /\ UNCHANGED <<store, log>>
    /\ UNCHANGED <<getContract, interfered, nk>>

MaxInterfere == 1

\* Another client of the store commits a transaction on key while a call
\* is between its attempt and its commit.
Interfere(key, entry) ==
    /\ interfered < MaxInterfere
    /\ Readers(key) # {}
    /\ store' = [store EXCEPT ![key] = entry]
    /\ stale' = stale \cup Readers(key)
    /\ interfered' = interfered + 1
    /\ UNCHANGED <<getContract, call, log, nk>>

(***************************************************************************)
(* Spec: one call of any public operation, with any of the arguments       *)
(* below, against any of the stores below, while another client of the    *)
(* store may commit in between.                                            *)
(***************************************************************************)
FieldVals(f) ==
    CASE f = fN -> {PyInt(10)}
      [] f = fS -> {PyStr("open"), PyStr("closed")}
      [] OTHER -> {PyInt(1)}
AllVals == UNION {FieldVals(f) : f \in {fN, fS, fA}}
Entities ==
    UNION {{e \in [D -> AllVals] : \A f \in D : e[f] \in FieldVals(f)} :
           D \in SUBSET {fN, fS, fA}}
Entries == {Absent} \cup {Present(e) : e \in Entities}
OtherEntity == (fN :> PyInt(10)) @@ (fS :> PyStr("open"))

InitStores ==
    {[k \in Addrs |-> CASE k = K1 -> e1
                        [] k = K2 -> Present(OtherEntity)
                        [] OTHER -> Absent] :
     e1 \in Entries}

Init ==
    /\ store \in InitStores
    /\ getContract \in GetContracts
    /\ call = [p \in Procs |-> Idle]
    /\ stale = {}
    /\ log = <<>>
    /\ interfered = 0
    /\ nk = NkIdle

KeyInputs == {K1, Tok1, MalStr, IntKey}
RawKeyInputs == {K1, Tok1, IntKey}
FieldsInputs ==
    {<<>>, <<Item(fA, PyInt(1))>>, <<Item(fS, PyStr("closed")), Item(fA, PyInt(2))>>}
NameInputs == {fN, fA}
ValueInputs == {1, 2}
StartInputs == {0, 5}
ValuesInputs ==
    {ArgDict(<<Item(Plus(fN), PyInt(5))>>),
     ArgDict(<<Item(Minus(fN), PyInt(3))>>),
     ArgDict(<<Item(Plus(fN), PyInt(5)), Item(Minus(fN), PyInt(3))>>),
     ArgDict(<<Item(fS, PyStr("closed")), Item(Plus(fN), PyInt(5))>>),
     ArgDict(<<Item(fR, PyStr("x"))>>),
     ArgCallable("set_a"),
     ArgInt}
PreconditionInputs ==
    {ArgNone,
     ArgDict(<<Item(fS, PyStr("open"))>>),
     ArgDict(<<Item(fA, PyInt(1)), Item(fS, PyStr("open"))>>),
     ArgCallable("require_open")}
CreateInputs ==
    {ArgBool(FALSE), ArgBool(TRUE), ArgDict(<<>>),
     ArgDict(<<Item(fS, PyStr("open")), Item(fN, PyInt(0))>>),
     ArgCallable("set_a")}
\* skel and update_relations: the flag is read in skel mode only.
StrategyInputs == {<<FALSE, FALSE>>, <<TRUE, FALSE>>, <<TRUE, TRUE>>}
InterfereEntries == {Absent, Present(OtherEntity)}

\* Spec has one caller, the first.
Caller == CHOOSE p \in Procs : \A q \in Procs : p <= q
OneCall(p) == call[p].pc = "idle"

Next ==
    \/ \E key \in KeyInputs, cm \in BOOLEAN, values \in FieldsInputs :
           OneCall(Caller) /\ Call_write_in_transaction(Caller, key, cm, values)
    \/ \E key \in KeyInputs, name \in NameInputs, value \in ValueInputs,
          start \in StartInputs :
           OneCall(Caller) /\ Call_increase_counter(Caller, key, name, value, start)
    \/ \E key \in RawKeyInputs, values \in ValuesInputs,
          precondition \in PreconditionInputs, create \in CreateInputs,
          strategy \in StrategyInputs :
           OneCall(Caller) /\ Call_set_status(Caller, key, values, precondition, create,
                                              strategy[1], strategy[2])
    \/ Txn_write_in_transaction(Caller)
    \/ Txn_increase_counter(Caller)
    \/ \E relOk \in BOOLEAN, saveOk \in BOOLEAN : Txn_set_status(Caller, relOk, saveOk)
    \/ Commit(Caller)
    \/ \E entry \in InterfereEntries : Interfere(K1, entry)

Spec == Init /\ [][Next]_vars

(***************************************************************************)
(* SpecCounter: the callers run increase_counter(k, "n", 1, start), up to   *)
(* MaxCalls calls in all, concurrently and one after another, on a key     *)
(* whose entity is missing or has no field "n".                            *)
(***************************************************************************)
MaxCalls == 3

RECURSIVE CallsMade(_)
\* The calls made so far by the callers in S.
CallsMade(S) ==
    IF S = {} THEN 0
    ELSE LET p == CHOOSE q \in S : TRUE IN call[p].ncalls + CallsMade(S \ {p})

InitCounter ==
    /\ Init
    /\ ~store[K1].exists \/ ~Has(store[K1].e, fN)

\* Every call made so far was given this start value.
SameStart(start) ==
    \A q \in Procs : call[q].op # "none" => call[q].a.start = start

NextCounter ==
    \E p \in Procs :
        \/ \E start \in StartInputs :
               /\ CallsMade(Procs) < MaxCalls
               /\ SameStart(start)
               /\ Call_increase_counter(p, IF p = 1 THEN Tok1 ELSE K1, fN, 1, start)
        \/ Txn_increase_counter(p)
        \/ Commit(p)

SpecCounter == InitCounter /\ [][NextCounter]_vars

\* ---------------------------------------------------------------------
\* Compare-and-set: every caller makes one call
\* set_status(K1, {"s": "closed"}, precondition={"s": "open"}) on an entity
\* whose s is "open", in either strategy.
StatusFrom == ArgDict(<<Item(fS, PyStr("open"))>>)
StatusTo == ArgDict(<<Item(fS, PyStr("closed"))>>)

InitCAS ==
    /\ Init
    /\ store[K1].exists
    /\ Has(store[K1].e, fS)
    /\ store[K1].e[fS] = PyStr("open")

NextCAS ==
    \E p \in Procs :
        \/ \E strategy \in StrategyInputs :
               /\ OneCall(p)
               /\ Call_set_status(p, K1, StatusTo, StatusFrom, ArgBool(FALSE),
                                  strategy[1], strategy[2])
        \/ \E saveOk \in BOOLEAN : Txn_set_status(p, TRUE, saveOk)
        \/ Commit(p)

SpecCAS == InitCAS /\ [][NextCAS]_vars

\* ---------------------------------------------------------------------
\* Mixed operations on one existing entity: the callers make one call each,
\* in turn write_in_transaction(K1, a=2), increase_counter(k, "n", 1, 0) with
\* k the URL-safe string of K1, and set_status(K1, {"+m": 5}).
MixedEntity == (fA :> PyInt(1)) @@ (fN :> PyInt(10)) @@ (fM :> PyInt(10))
MixedFields == <<Item(fA, PyInt(2))>>
MixedValues == ArgDict(<<Item(Plus(fM), PyInt(5))>>)
Role(p) ==
    CASE p % 3 = 1 -> "write_in_transaction"
      [] p % 3 = 2 -> "increase_counter"
      [] OTHER -> "set_status"

InitMixed ==
    /\ store = [k \in Addrs |-> IF k = K1 THEN Present(MixedEntity) ELSE Absent]
    /\ getContract \in GetContracts
    /\ call = [p \in Procs |-> Idle]
    /\ stale = {}
    /\ log = <<>>
    /\ interfered = 0
    /\ nk = NkIdle

NextMixed ==
    \E p \in Procs :
        \/ /\ OneCall(p)
           /\ Role(p) = "write_in_transaction"
           /\ Call_write_in_transaction(p, K1, TRUE, MixedFields)
        \/ /\ OneCall(p)
           /\ Role(p) = "increase_counter"
           /\ Call_increase_counter(p, Tok1, fN, 1, 0)
        \/ \E strategy \in StrategyInputs :
               /\ OneCall(p)
               /\ Role(p) = "set_status"
               /\ Call_set_status(p, K1, MixedValues, ArgNone, ArgBool(FALSE),
                                  strategy[1], strategy[2])
        \/ Txn_write_in_transaction(p)
        \/ Txn_increase_counter(p)
        \/ \E saveOk \in BOOLEAN : Txn_set_status(p, TRUE, saveOk)
        \/ Commit(p)

SpecMixed == InitMixed /\ [][NextMixed]_vars

\* The mixed operations under a fair scheduler: a caller whose closure can
\* run gets to run it, and a caller whose attempt awaits the runner's
\* decision gets it.
RunnerStep(p) ==
    \/ Txn_write_in_transaction(p)
    \/ Txn_increase_counter(p)
    \/ \E saveOk \in BOOLEAN : Txn_set_status(p, TRUE, saveOk)
    \/ Commit(p)

FairMixed == \A p \in Procs : WF_vars(RunnerStep(p))

SpecMixedFair == SpecMixed /\ FairMixed

(***************************************************************************)
(* SpecNormalize: normalize_key applied to an input, and again to its      *)
(* result.                                                                 *)
(***************************************************************************)
MaxLen == 4
MaxChar == 2
Strings == UNION {[1..n -> 0..MaxChar] : n \in 0..MaxLen}
NoneKey == [type |-> "NoneType", kind |-> 0, id |-> 0, chars |-> <<>>]
NormalizeInputs ==
    StructuredKeys \cup {StrOf(cs) : cs \in Strings} \cup {IntKey, NoneKey}

Normalize(key) ==
    /\ nk.stage = 0
    /\ nk' = [nk EXCEPT !.stage = 1, !.input = key, !.once = normalize_key(key)]
    /\ UNCHANGED <<store, getContract, call, stale, log, interfered>>

NormalizeAgain ==
    /\ nk.stage = 1
    /\ nk.once.err = ""
    /\ nk' = [nk EXCEPT !.stage = 2, !.twice = normalize_key(nk.once.key)]
    /\ UNCHANGED <<store, getContract, call, stale, log, interfered>>

NextNormalize ==
    \/ \E key \in NormalizeInputs : Normalize(key)
    \/ NormalizeAgain

SpecNormalize == Init /\ [][NextNormalize]_vars

(***************************************************************************)
(* Properties.                                                             *)
(***************************************************************************)
\* Caller p runs one attempt of its closure in this step.
AttemptStep(p) == call[p].pc = "txn" /\ call'[p].attempts = call[p].attempts + 1
\* Caller p's attempt is committed in this step.
CommitStep(p) == call[p].pc = "commit" /\ call'[p].pc = "done"
\* The call of p has ended.
Done(p) == call[p].pc = "done"
Lookup(e, f) == IF Has(e, f) THEN e[f] ELSE PyNone
PlainNames == {fN, fS, fA, fR}
Names(m) == {m[i][1] : i \in DOMAIN m}
NotFoundErrors == {"NotFoundError", "ValueError: not found"}

\* C3 (as claimed): a finished increase_counter call never failed: it
\* returned the stored value of `name`, or `start` when the field or the
\* entity was missing, and the store holds that value plus `value` with
\* every other field as the attempt read it.
C3_Old(c) ==
    IF c.snap.exists /\ Has(c.snap.e, c.a.name) THEN c.snap.e[c.a.name]
    ELSE PyInt(c.a.start)
C3_IncreaseCounterCreatesAndAdds ==
    \A p \in Procs :
        (Done(p) /\ call[p].op = "increase_counter" /\ call[p].started) =>
            /\ call[p].err = ""
            /\ call[p].val = C3_Old(call[p])
            /\ store[call[p].nkey].exists
            /\ LET e == store[call[p].nkey].e IN
               /\ Lookup(e, call[p].a.name) = PyInt(C3_Old(call[p])[2] + call[p].a.value)
               /\ \A f \in PlainNames \ {call[p].a.name} :
                      Lookup(e, f) = Lookup(call[p].snap.e, f)

\* C4: a set_status attempt with a dict precondition that finds an existing
\* record holding every listed field, at least one with another value than
\* expected, ends the call with the AssertionError of line 117 and writes
\* nothing, in raw and in skel mode.
C4_Mismatch(p) ==
    /\ call[p].op = "set_status"
    /\ call[p].a.precondition.t = "dict"
    /\ store[call[p].nkey].exists
    /\ LET e == store[call[p].nkey].e
           m == call[p].a.precondition.m
       IN /\ \A i \in DOMAIN m : Has(e, m[i][1])
          /\ \E i \in DOMAIN m : e[m[i][1]] # m[i][2]
C5_MissingNoCreate(p) ==
    /\ call[p].op = "set_status"
    /\ ~store[call[p].nkey].exists
    /\ ~Truthy(call[p].a.create)
C5_MissingWithoutCreateIsNotFound ==
    [][\A p \in Procs :
         (AttemptStep(p) /\ C5_MissingNoCreate(p)) =>
            /\ call'[p].pc = "done"
            /\ call'[p].err \in NotFoundErrors
            /\ store' = store
            /\ ~store'[call[p].nkey].exists
            /\ call'[p].skelVals = call[p].skelVals]_vars
C5_Witness ==
    \E p \in Procs :
        /\ Done(p) /\ call[p].op = "set_status"
        /\ call[p].err = "ValueError: not found"
        /\ call[p].a.create = ArgDict(<<>>)
        /\ call[p].a.values.t = "int"
        /\ ~store[call[p].nkey].exists

RECURSIVE NetValue(_, _, _)
\* The value of field f after the items of m, in order, acted on old.
NetValue(m, f, old) ==
    IF m = <<>> THEN old
    ELSE LET last == m[Len(m)]
             prev == NetValue(SubSeq(m, 1, Len(m) - 1), f, old)
         IN IF last[1] = f THEN last[2]
            ELSE IF last[1] = Plus(f) /\ IsNum(prev) THEN PyInt(prev[2] + last[2][2])
            ELSE IF last[1] = Minus(f) /\ IsNum(prev) THEN PyInt(prev[2] - last[2][2])
            ELSE prev

\* C6: when set_status with a dict of values commits on an existing record,
\* each field holds what "+name" (add), "-name" (subtract) and "name"
\* (assign), applied in dict order, make of its stored value; no field is
\* stored under a prefixed name and no other entity changes.
C6_OperatorsApplied ==
    [][\A p \in Procs :
         (/\ CommitStep(p)
          /\ call[p].op = "set_status"
          /\ call[p].a.values.t = "dict"
          /\ store[call[p].nkey].exists) =>
            /\ store'[call[p].nkey].exists
            /\ DOMAIN store'[call[p].nkey].e \subseteq PlainNames
            /\ \A f \in PlainNames :
                   Lookup(store'[call[p].nkey].e, f) =
                       NetValue(call[p].a.values.m, f, Lookup(store[call[p].nkey].e, f))
            /\ \A k \in Addrs \ {call[p].nkey} : store'[k] = store[k]]_vars
C6_Witness ==
    \E p \in Procs :
        /\ Done(p) /\ call[p].op = "set_status" /\ call[p].err = ""
        /\ call[p].a.values =
               ArgDict(<<Item(Plus(fN), PyInt(5)), Item(Minus(fN), PyInt(3))>>)
        /\ call[p].snap.exists
        /\ call[p].snap.e[fN] = PyInt(10)
        /\ store[call[p].nkey].e[fN] = PyInt(12)

\* C7 (as claimed): write_in_transaction on a key without entity fails with
\* NotFoundError and creates nothing when create_missing_entity is False,
\* and otherwise stores an entity holding exactly the given fields.
C7_MissingEntityHandled ==
    \A p \in Procs :
        (/\ Done(p) /\ call[p].op = "write_in_transaction"
         /\ call[p].started /\ ~call[p].snap.exists) =>
            IF call[p].a.create_missing_entity
            THEN /\ call[p].err = ""
                 /\ store[call[p].nkey] = Present(AssignAll(EmptyEntity, call[p].a.fields))
            ELSE /\ call[p].err = "NotFoundError"
                 /\ ~store[call[p].nkey].exists

\* The last value m gives to f.
LastValue(m, f) ==
    m[CHOOSE i \in DOMAIN m :
          m[i][1] = f /\ \A j \in DOMAIN m : m[j][1] = f => j <= i][2]

\* C8: when write_in_transaction commits on an existing entity, the stored
\* entity holds the given value for each given field and its old value for
\* every other field, no other entity changes, and the returned entity is
\* the stored one.
C8_WriteOverwritesGivenFieldsOnly ==
    [][\A p \in Procs :
         (/\ CommitStep(p)
          /\ call[p].op = "write_in_transaction"
          /\ store[call[p].nkey].exists) =>
            LET old == store[call[p].nkey].e
                m == call[p].a.fields
            IN /\ store' = [store EXCEPT ![call[p].nkey] =
                                Present([f \in DOMAIN old \cup Names(m) |->
                                            IF f \in Names(m) THEN LastValue(m, f)
                                            ELSE old[f]])]
               /\ call'[p].obj = store'[call[p].nkey].e]_vars
C8_Witness ==
    \E p \in Procs :
        /\ Done(p) /\ call[p].op = "write_in_transaction" /\ call[p].err = ""
        /\ call[p].snap = Present((fN :> PyInt(10)) @@ (fA :> PyInt(1)))
        /\ call[p].a.fields = <<Item(fS, PyStr("closed")), Item(fA, PyInt(2))>>
        /\ store[call[p].nkey].e =
               (fN :> PyInt(10)) @@ (fA :> PyInt(2)) @@ (fS :> PyStr("closed"))

\* C10 (as claimed): every call gives the runner the normalized key, and a
\* key that is neither str nor db.Key raises TypeError before the runner is
\* entered.
C10_KeyNormalizedBeforeTransaction ==
    \A p \in Procs :
        call[p].op # "none" =>
            /\ call[p].started =>
                   /\ normalize_key(call[p].key).err = ""
                   /\ call[p].nkey = normalize_key(call[p].key).key
            /\ call[p].key.type \notin {"str", "Key"} =>
                   /\ ~call[p].started
                   /\ call[p].err = "TypeError"

\* The start value of the calls made (SpecCounter gives every call the same).
TheStart == call[CHOOSE p \in Procs : call[p].op # "none"].a.start
\* Every call made has returned, none with an exception.
AllReturned ==
    /\ log # <<>>
    /\ \A p \in Procs : call[p].pc \in {"idle", "done"}
    /\ \A i \in DOMAIN log : log[i].err = ""

\* C1: once all N calls of increase_counter(k, "n", 1, start) have returned,
\* the stored "n" is start + N, however attempts, conflicts and retries
\* interleaved.
C1_NoIncrementLost ==
    AllReturned =>
        /\ store[K1].exists
        /\ Lookup(store[K1].e, fN) = PyInt(TheStart + Len(log))
C1_Witness ==
    /\ AllReturned
    /\ Len(log) = NumProcs
    /\ \A p \in Procs : call[p].ncalls = 1
    /\ \E p \in Procs : call[p].attempts >= 2

\* The calls that returned a value, in the order they returned.
ReturnedOk(r) == r.err = ""
Returned == SelectSeq(log, ReturnedOk)

\* C2: the values returned by the calls of increase_counter(k, "n", 1,
\* start) are pairwise distinct and are exactly start, ..., start + N - 1
\* for the N calls that have returned.
C2_ReturnedValuesAreSequence ==
    /\ \A i, j \in DOMAIN Returned : i # j => Returned[i].val # Returned[j].val
    /\ {Returned[i].val : i \in DOMAIN Returned} =
           {PyInt(TheStart + i - 1) : i \in DOMAIN Returned}
C2_Witness ==
    /\ Len(Returned) = 3
    /\ \E p \in Procs : call[p].attempts >= 2
    /\ \E p \in Procs : call[p].ncalls = 2 /\ Done(p)

\* C9: normalize_key returns a db.Key unchanged, decodes the legacy token of
\* a key to that key, raises TypeError for an input that is neither str nor
\* db.Key, leaves the store alone, and applied to its own result returns
\* the same result.
C9_NormalizeKeyIdempotent ==
    /\ nk.stage >= 1 =>
          /\ nk.input.type = "Key" => nk.once = [err |-> "", key |-> nk.input]
          /\ \A k \in StructuredKeys :
                 nk.input = to_legacy_urlsafe(k) => nk.once = [err |-> "", key |-> k]
          /\ nk.input.type \notin {"str", "Key"} => nk.once.err = "TypeError"
          /\ store \in InitStores
    /\ nk.stage = 2 => nk.twice = nk.once
C9_Witness ==
    /\ nk.stage = 2
    /\ nk.input = Tok1
    /\ nk.twice = [err |-> "", key |-> K1]

\* ---------------------------------------------------------------------
\* C11: a set_status call whose values argument is neither a mapping nor a
\* procedure ends with the error of line 145 whatever the entity and the
\* precondition are, and has assigned no creation field and run no creation
\* or precondition procedure before that: the record it worked on is the one
\* it loaded (or an empty one), and nothing was written.
C11_Loaded(c) == IF c.snap.exists THEN c.snap.e ELSE EmptyEntity
C11_InvalidValuesFailsFirst ==
    \A p \in Procs :
        (/\ Done(p)
         /\ call[p].op = "set_status"
         /\ call[p].a.values.t \notin {"dict", "callable"})
        => /\ call[p].err = "ValueError: values"
           /\ call[p].obj = C11_Loaded(call[p])
           /\ call[p].put = ""

\* ---------------------------------------------------------------------
\* C12: no partial entity state is committed.  A call that ends with an
\* exception has written nothing: the step that ends it leaves the store
\* as it is, and so does every attempt and every retry before it.  An
\* attempt writes at most once, as its last step: it holds a write only
\* when it raised nothing, and what the runner commits for it is exactly
\* the object the closure returned, at the key of the call.
C12_Fails(p) == call[p].pc # "done" /\ call'[p].pc = "done" /\ call'[p].err # ""
C12_NoPartialStateCommitted ==
    [][\A p \in Procs :
          /\ C12_Fails(p) => store' = store /\ call'[p].put = ""
          /\ AttemptStep(p) => store' = store
          /\ (call[p].pc = "commit" /\ call'[p].pc = "txn") => store' = store
          /\ call'[p].put # "" => call'[p].err = ""
          /\ CommitStep(p) =>
                store' = [store EXCEPT ![call[p].nkey] = Present(call[p].obj)]]_vars
\* A mapping of values failed part-way (the second entry adds to a field the
\* entity does not have, after the first entry was assigned in memory), and
\* the stored entity is still the one the attempt read.
C12_Witness ==
    \E p \in Procs :
        /\ Done(p)
        /\ call[p].op = "set_status"
        /\ call[p].a.values = ArgDict(<<Item(fS, PyStr("closed")), Item(Plus(fN), PyInt(5))>>)
        /\ call[p].err = "KeyError"
        /\ call[p].snap.exists
        /\ call[p].obj # call[p].snap.e
        /\ store[call[p].nkey] = call[p].snap

\* ---------------------------------------------------------------------
\* C13: retries are invisible.  When a call has ended, its error, the
\* object it returned and (if it committed) the stored entity are those of
\* one execution of its closure, started from scratch with the arguments
\* as the caller passed them, against the entity the final attempt read.
\* For set_status with a skeleton "from scratch" means the skeleton as the
\* caller supplied it.
C13_Seen(c) == [k \in Addrs |-> IF k = c.nkey THEN c.snap ELSE Absent]
C13_FirstTry(c) ==
    IF c.op = "write_in_transaction"
    THEN {write_txn(C13_Seen(c), getContract, c.a.create_missing_entity, c.nkey, c.a.fields)}
    ELSE IF c.op = "increase_counter"
    THEN {increase_txn(C13_Seen(c), getContract, c.nkey, c.a.name, c.a.value, c.a.start)}
    ELSE {transaction(C13_Seen(c), getContract, c.nkey, c.a, EmptyEntity, relOk, saveOk) :
             relOk \in BOOLEAN, saveOk \in BOOLEAN}
C13_RetriesInvisible ==
    \A p \in Procs :
        (Done(p) /\ call[p].attempts >= 1)
        => \E o \in C13_FirstTry(call[p]) :
              /\ o.err = call[p].err
              /\ o.err = "" => /\ o.obj = call[p].obj
                               /\ o.val = call[p].val
                               /\ store[call[p].nkey] = Present(o.obj)

\* ---------------------------------------------------------------------
\* C14: the precondition is evaluated on the record as it is after Load and
\* Create and before any entry of values.  With a mapping precondition, a
\* call that got as far as the precondition fails with the assertion error
\* of line 117 when some listed field of that record differs from its
\* expected value, a field the record does not have included, and does not
\* fail with that error when all are equal.
\* (First attempts only, so that the record is a function of the arguments;
\* creation by procedure is left to C15.)
C14_Record(c) ==
    IF c.snap.exists THEN c.snap.e
    ELSE IF c.a.create.t = "dict" THEN AssignAll(EmptyEntity, c.a.create.m)
    ELSE EmptyEntity
C14_Holds(c) ==
    \A i \in DOMAIN c.a.precondition.m :
        Lookup(C14_Record(c), c.a.precondition.m[i][1]) = c.a.precondition.m[i][2]
C14_Reached(p) ==
    /\ Done(p)
    /\ call[p].op = "set_status"
    /\ call[p].attempts = 1
    /\ call[p].a.precondition.t = "dict"
    /\ call[p].a.create.t # "callable"
    /\ call[p].err \notin NotFoundErrors
    /\ call[p].snap.exists \/ getContract = "None" \/ call[p].a.skel
C14_PreconditionAfterCreate ==
    \A p \in Procs :
        C14_Reached(p)
        => IF C14_Holds(call[p])
           THEN call[p].err # "AssertionError"
           ELSE call[p].err = "AssertionError"

\* ---------------------------------------------------------------------
\* C15: the creation spec takes effect only on creation.  When the entity
\* exists, a set_status call ends as the same call with create=False ends.
\* When the entity is absent and create is truthy, the call does not end
\* with a not-found error, and a call that returns has worked on a new
\* record that first received the fields of a mapping create (or the effect
\* of the creation procedure, run once) and then the values.
C15_Created(c) ==
    IF c.a.create.t = "dict" THEN AssignAll(EmptyEntity, c.a.create.m)
    ELSE IF c.a.create.t = "callable" THEN ApplyProc(c.a.create.p, Rec("", EmptyEntity, FALSE, {})).obj
    ELSE EmptyEntity
C15_WithoutCreate(c) ==
    {transaction(C13_Seen(c), getContract, c.nkey, [c.a EXCEPT !.create = ArgBool(FALSE)],
                 EmptyEntity, relOk, saveOk) : relOk \in BOOLEAN, saveOk \in BOOLEAN}
C15_CreateOnlyOnCreation ==
    \A p \in Procs :
        (Done(p) /\ call[p].op = "set_status" /\ call[p].attempts = 1)
        => /\ call[p].snap.exists
              => \E o \in C15_WithoutCreate(call[p]) :
                    o.err = call[p].err /\ o.obj = call[p].obj /\ o.put = call[p].put
           /\ (~call[p].snap.exists /\ Truthy(call[p].a.create))
              => /\ call[p].err \notin NotFoundErrors
                 /\ (call[p].err = "" /\ call[p].a.values.t = "dict")
                    => \A f \in PlainNames :
                          Lookup(call[p].obj, f) =
                              NetValue(call[p].a.values.m, f, Lookup(C15_Created(call[p]), f))

\* ---------------------------------------------------------------------
\* C16: set_status is an atomic compare-and-set.  Of the concurrent calls
\* that each require s = "open" and set s = "closed", never more than one
\* returns; when all have ended and no save of a skeleton was refused,
\* exactly one has returned, every other has failed with the assertion
\* error of the precondition, and the stored s is "closed".
C16_Succeeded == {p \in Procs : Done(p) /\ call[p].err = ""}
C16_SaveRefused == \E p \in Procs : call[p].err = "AssertionError: toDB"
C16_CompareAndSet ==
    /\ Cardinality(C16_Succeeded) <= 1
    /\ ((\A p \in Procs : Done(p)) /\ ~C16_SaveRefused)
       => /\ Cardinality(C16_Succeeded) = 1
          /\ \A p \in Procs \ C16_Succeeded : call[p].err = "AssertionError"
          /\ store[K1].e[fS] = PyStr("closed")
\* All calls have ended, one returned, and a loser had read s = "open" in a
\* first attempt, was retried after the winner's commit and then failed.
C16_Witness ==
    /\ \A p \in Procs : Done(p)
    /\ Cardinality(C16_Succeeded) = 1
    /\ \E p \in Procs : call[p].err = "AssertionError" /\ call[p].attempts = 2

\* ---------------------------------------------------------------------
\* C17: concurrent operations of different kinds on one entity do not
\* overwrite each other's effects.  When every caller's call has returned,
\* the stored entity holds the written value of a, n raised by one for every
\* increase_counter call and m raised by five for every set_status call,
\* and nothing else.
C17_Calls(op) == Cardinality({p \in Procs : call[p].op = op})
C17_AllCommitted == \A p \in Procs : Done(p) /\ call[p].err = ""
C17_EffectsComposed ==
    C17_AllCommitted
    => store[K1] = Present((fA :> PyInt(2))
                           @@ (fN :> PyInt(MixedEntity[fN][2] + C17_Calls("increase_counter")))
                           @@ (fM :> PyInt(MixedEntity[fM][2] + 5 * C17_Calls("set_status"))))
\* All calls returned and each of them was retried at least once.
C17_Witness ==
    /\ C17_AllCommitted
    /\ \E p \in Procs : call[p].op = "write_in_transaction" /\ call[p].attempts >= 2
    /\ \E p \in Procs : call[p].op = "set_status" /\ call[p].attempts >= 2

\* ---------------------------------------------------------------------
\* C18: with a skeleton, the plain-named entries of values that name a
\* relational bone, and only those, are set through skel.setBoneValue, and
\* a call that returns has saved through skel.toDB with the caller's
\* update_relations flag, never through db.Put.  A call that ends because
\* setBoneValue or toDB reported failure has written nothing.  Without a
\* skeleton nothing goes through the setter and the write is db.Put.
C18_RelationEntries(c) ==
    IF c.a.values.t = "dict" THEN Names(c.a.values.m) \cap RelationalBones ELSE {}
C18_RelationsThroughSkeleton ==
    \A p \in Procs :
        (Done(p) /\ call[p].op = "set_status")
        => /\ (call[p].err = "" /\ call[p].a.skel)
              => /\ call[p].rel = C18_RelationEntries(call[p])
                 /\ call[p].put = toDB(call[p].a.update_relations)
           /\ (call[p].err = "" /\ ~call[p].a.skel)
              => call[p].rel = {} /\ call[p].put = "db.Put"
           /\ call[p].err \in {"AssertionError: setBoneValue", "AssertionError: toDB"}
              => /\ call[p].a.skel
                 /\ call[p].put = ""
                 /\ store[call[p].nkey] = call[p].snap
\* A call with a skeleton and update_relations=True set the relational bone
\* r through the setter and saved.
C18_Witness ==
    \E p \in Procs :
        /\ Done(p)
        /\ call[p].err = ""
        /\ call[p].a.skel
        /\ call[p].a.update_relations
        /\ call[p].a.values = ArgDict(<<Item(fR, PyStr("x"))>>)
        /\ call[p].rel = {fR}
        /\ call[p].put = "toDB(update_relations=True)"
        /\ store[call[p].nkey] = Present(call[p].obj)

\* ---------------------------------------------------------------------
\* C19: the three operations agree on how the store reports a missing
\* entity.  Whatever the one contract of db.Get is, a first attempt that
\* found no entity at its key took the absent-entity branch of its
\* operation: write_in_transaction created the entity or, with
\* create_missing_entity false, ended with the not-found error;
\* increase_counter created the entity; raw-store set_status with a truthy
\* create went on with a new record (it did not end with a not-found error
\* nor with a TypeError of touching a missing result) and without it ended
\* with its not-found error.
C19_Absent(p) ==
    /\ Done(p)
    /\ call[p].attempts = 1
    /\ ~call[p].snap.exists
C19_MissingEntityAgreed ==
    \A p \in Procs :
        C19_Absent(p)
        => /\ call[p].op = "write_in_transaction"
              => IF call[p].a.create_missing_entity
                 THEN call[p].err = "" /\ store[call[p].nkey].exists
                 ELSE call[p].err \in NotFoundErrors
           /\ call[p].op = "increase_counter"
              => call[p].err = "" /\ store[call[p].nkey].exists
           /\ (call[p].op = "set_status" /\ ~call[p].a.skel)
              => IF Truthy(call[p].a.create)
                 THEN call[p].err # "NotFoundError"
                 ELSE call[p].err \in NotFoundErrors

\* ---------------------------------------------------------------------
\* C20: every call eventually returns.  Under a fair scheduler a call that
\* has entered the runner reaches its end; until then each conflict makes
\* the runner run the closure again from scratch, and an attempt that
\* raises ends the call at once, with that error, and is never run again.
C20_InRunner(p) == call[p].pc \in {"txn", "commit"}
C20_RaisedIsFinal ==
    [][\A p \in Procs :
          /\ (AttemptStep(p) /\ call'[p].err # "") => call'[p].pc = "done"
          /\ (Done(p) /\ call[p].err # "") => call'[p] = call[p]
          /\ (call[p].pc = "commit" /\ call'[p].pc = "txn")
             => call'[p].attempts = call[p].attempts]_vars
C20_EveryCallReturns ==
    /\ \A p \in Procs : C20_InRunner(p) ~> Done(p)
    /\ C20_RaisedIsFinal
\* All calls have ended, one after a retry and one with an exception.
C20_Witness ==
    /\ \A p \in Procs : Done(p)
    /\ \E p \in Procs : call[p].err = "" /\ call[p].attempts >= 2
    /\ \E p \in Procs : call[p].err # "" /\ call[p].attempts >= 1

====
